---- MODULE Spec2Model ----
(***************************************************************************)
(* Model of the fleet supervisor BotMonitor (src/runner.py): the backing   *)
(* store data.json, the registry running_bots, the worker processes and    *)
(* their monitor threads, the reconciliation pass _start_new_bots, the     *)
(* control loop start_monitoring and the shutdown _shutdown_all_bots.      *)
(***************************************************************************)
EXTENDS Integers, Sequences, FiniteSets, TLC

\* ------------------------------------------------------------------ bounds
\* Longest declared list the external actor writes to the store.
MaxLen == 2
\* Number of worker processes the supervisor may spawn in one behaviour.
MaxProcs == 3
\* Largest modification time of the store (the store starts at 1, every
\* write advances it by one).
MaxMtime == 3

\* ----------------------------------------------------------- worker records
\* _validate_bot_config: the fields a record must hold.
required_fields == {"bot_token", "model", "personality"}

\* Three records: a valid one, the same with another msg_chance, and one
\* that lacks the personality field.
CfgA == [fields |-> required_fields, msg_chance |-> 5]
CfgA2 == [fields |-> required_fields, msg_chance |-> 20]
CfgBad == [fields |-> {"bot_token", "model"}, msg_chance |-> 5]
Configs == {CfgA, CfgA2, CfgBad}

\* ChatManager calls each worker makes.
MaxCalls == 2

\* ai.py, line 34: the number of elements _load_all_histories keeps.
HistoryCap == 500

\* Lists of records of length 0..MaxLen.
Lists == UNION {[1..n -> Configs] : n \in 0..MaxLen}

\* The backing store: absent, present with content json.load rejects or that
\* is not a list, or present with a list of records.
StoreMissing == [kind |-> "missing", list |-> <<>>]
StoreInvalid == [kind |-> "invalid", list |-> <<>>]
StoreList(l) == [kind |-> "list", list |-> l]

\* os.path.exists(self.data_file)
Exists(s) == s.kind # "missing"

\* _load_data: the list in the store, [] when the store is absent,
\* unparsable or not a list.
LoadData(s) == IF s.kind = "list" THEN s.list ELSE <<>>

\* _validate_bot_config: every required field is present.  (The msg_chance
\* normalisation writes into the freshly loaded copy only.)
ValidateBotConfig(config) == \A f \in required_fields : f \in config.fields

\* ------------------------------------------------------ registry (a dict)
\* running_bots is a dict: a sequence of entries in insertion order, slot
\* indices are 0-based as in the source.
Keys(bots) == {bots[k].index : k \in DOMAIN bots}
Has(bots, i) == i \in Keys(bots)
Get(bots, i) == (CHOOSE k \in DOMAIN bots : bots[k].index = i)
ProcOf(bots, i) == bots[Get(bots, i)].process
Del(bots, i) == SelectSeq(bots, LAMBDA e : e.index # i)
\* An insertion that ignores the key and always writes the entry of slot 0.
PutUnderZero(bots, i, p) ==
  IF Has(bots, 0)
    THEN [bots EXCEPT ![Get(bots, 0)].process = p]
    ELSE Append(bots, [index |-> 0, process |-> p])
Put(bots, i, p) ==
  IF Has(bots, i)
    THEN [bots EXCEPT ![Get(bots, i)].process = p]
    ELSE Append(bots, [index |-> i, process |-> p])

VARIABLES
  store,          \* content of data.json
  mtime,          \* os.path.getmtime of data.json
  data,           \* self.data
  running_bots,   \* self.running_bots
  lock,           \* self.lock is held by the control thread
  monitoring,     \* self.monitoring
  procs,          \* every Popen object created so far, with its monitor thread
  pc,             \* position of the control thread in start_monitoring
  inTry,          \* the control thread is inside the try block (lines 163-181)
  new_data,       \* _start_new_bots: new_data
  idx,            \* _start_new_bots: the loop variable i
  last_mod_time,  \* start_monitoring: last_mod_time
  current_mod_time, \* start_monitoring: current_mod_time
  sdTodo,         \* _shutdown_all_bots: entries still to visit
  exitCause,      \* why the control loop was left
  sdRan,          \* _shutdown_all_bots was entered
  sdErr,          \* slots whose terminate raised during shutdown
  passBots,       \* history: registry at the start of the current pass
  passOld,        \* history: self.data at the start of the current pass
  passLog,        \* history: actions of the current pass, in order
  passSame,       \* history: the store content is the one the previous pass read
  stable,         \* history: no content change since the last load of a pass
  cli,            \* one invocation of main(): sys.argv, its BotMonitor, output
  worker_codes,   \* exit codes the workers of this run can end with on their own
  chat            \* chat.json and the ChatManager calls of the workers (ai.py)

vars == <<store, mtime, data, running_bots, lock, monitoring, procs, pc, inTry,
          new_data, idx, last_mod_time, current_mod_time, sdTodo, exitCause,
          sdRan, sdErr, passBots, passOld, passLog, passSame, stable, cli,
          worker_codes, chat>>

envVars == <<store, mtime>>
passHist == <<passBots, passOld, passLog, passSame, stable>>
sdVars == <<sdTodo, sdRan, sdErr>>
loopVars == <<last_mod_time, current_mod_time>>

\* States the store is in when the supervisor is constructed.
InitStores == {StoreMissing, StoreInvalid} \cup {StoreList(l) : l \in Lists}

\* sys.argv of the invocations of the command line.
Argvs == {<<"bot_monitor.py">>,
          <<"bot_monitor.py", "list">>,
          <<"bot_monitor.py", "help">>,
          <<"bot_monitor.py", "start">>,
          <<"bot_monitor.py", "list", "all">>,
          <<"bot_monitor.py", "help", "list">>,
          <<"bot_monitor.py", "a", "b", "c">>}

\* main() has been entered with sys.argv = argv; nothing is constructed or
\* printed yet and the process has no exit status (-1).
CliEntered(argv) == [pc |-> "main", argv |-> argv, data |-> <<>>, bots |-> <<>>,
                     out |-> <<>>, status |-> -1]

\* main() without arguments, lines 218-224: the BotMonitor is constructed and
\* start_monitoring is entered; the monitor object is the one the variables
\* data, running_bots, ... describe.
CliMonitoring == [pc |-> "monitoring", argv |-> <<"bot_monitor.py">>, data |-> <<>>,
                  bots |-> <<>>, out |-> <<>>, status |-> -1]

\* Bot ids of the workers that use the chat history (discord_bot.py <index>).
BotIds == 0 .. (MaxLen - 1)

\* No worker is inside a ChatManager call; chat.json does not exist or holds
\* no history; saved is the record of what get_ai_response calls have saved.
ChatIdle == [file |-> <<>>,
             w |-> [b \in BotIds |-> [pc |-> "idle", histories |-> <<>>, calls |-> 0]],
             saved |-> {}]

\* __init__ (lines 10-15), then main calls start_monitoring.
Constructed ==
  /\ cli = CliMonitoring
  /\ chat = ChatIdle
  /\ store \in InitStores
  /\ mtime = 1
  /\ data = LoadData(store)
  /\ running_bots = <<>>
  /\ lock = FALSE
  /\ monitoring = FALSE
  /\ procs = <<>>
  /\ pc = "rec_load"
  /\ inTry = FALSE
  /\ new_data = <<>>
  /\ idx = 0
  /\ last_mod_time = 0
  /\ current_mod_time = 0
  /\ sdTodo = <<>>
  /\ exitCause = "none"
  /\ sdRan = FALSE
  /\ sdErr = {}
  /\ passBots = <<>>
  /\ passOld = <<>>
  /\ passLog = <<>>
  /\ passSame = FALSE
  /\ stable = FALSE

\* Exit codes of a worker that ends on its own: discord_bot.py returns from
\* its client (0) or calls sys.exit(1).
CleanCodes == {0}
ExitCodes == {0, 1}

\* The supervisor is constructed; the workers of the run end cleanly when
\* they end on their own.
Init == Constructed /\ worker_codes = CleanCodes

\* The supervisor is constructed; a worker of the run can also fail.
MonInit == Constructed /\ worker_codes = ExitCodes

\* Positions of the control thread before the shutdown.
Running == {"rec_load", "rec_iter", "rec_end", "rec_ret", "init_exists", "init_getmtime",
            "set_monitoring", "loop_test", "poll_exists", "poll_getmtime",
            "settle", "set_last_mod", "cleanup", "sleep"}

\* ------------------------------------------------------------ environment
\* The store is modelled while the supervisor can still read it, that is
\* before the shutdown begins.
\* The external actor replaces the store by a list of records (a whole-file
\* write; rewriting the same content is a write too).
StoreWrite(l) ==
  /\ pc \in Running
  /\ mtime < MaxMtime
  /\ store' = StoreList(l)
  /\ mtime' = mtime + 1
  /\ stable' = (stable /\ store' = store)
  /\ UNCHANGED <<data, running_bots, lock, monitoring, procs, pc, inTry,
                 new_data, idx, loopVars, sdVars, exitCause,
                 passBots, passOld, passLog, passSame>>
  /\ UNCHANGED <<cli, worker_codes, chat>>

\* The external actor replaces the store by content that is not a JSON list.
StoreCorrupt ==
  /\ pc \in Running
  /\ mtime < MaxMtime
  /\ store' = StoreInvalid
  /\ mtime' = mtime + 1
  /\ stable' = (stable /\ store' = store)
  /\ UNCHANGED <<data, running_bots, lock, monitoring, procs, pc, inTry,
                 new_data, idx, loopVars, sdVars, exitCause,
                 passBots, passOld, passLog, passSame>>
  /\ UNCHANGED <<cli, worker_codes, chat>>

\* The external actor deletes the store.
StoreDelete ==
  /\ pc \in Running
  /\ Exists(store)
  /\ store' = StoreMissing
  /\ stable' = FALSE
  /\ UNCHANGED <<mtime, data, running_bots, lock, monitoring, procs, pc, inTry,
                 new_data, idx, loopVars, sdVars, exitCause,
                 passBots, passOld, passLog, passSame>>
  /\ UNCHANGED <<cli, worker_codes, chat>>

\* A worker process (discord_bot.py) exits on its own; returncode is what
\* Popen reports for it from then on.
WorkerExit(p) ==
  /\ pc # "done"
  /\ p \in DOMAIN procs
  /\ procs[p].status = "running"
  /\ \E c \in worker_codes :
       procs' = [procs EXCEPT ![p].status = "exited", ![p].returncode = <<c>>]
  /\ UNCHANGED <<envVars, data, running_bots, lock, monitoring, pc, inTry,
                 new_data, idx, loopVars, sdVars, exitCause, passHist>>
  /\ UNCHANGED <<cli, worker_codes, chat>>

\* ------------------------------------------------------- monitor threads
\* _monitor_bot_process, lines 86-88: what the thread launched for slot
\* index does to the registry once communicate() has returned.
MonitorRemove(bots, index, p) == IF Has(bots, index) THEN Del(bots, index) ELSE bots

\* A report that takes only a death by signal for a failure.
OutcomeBySignal(returncode) == IF returncode[1] < 0 THEN "failure" ELSE "success"

\* _monitor_bot_process, lines 90-95: what the thread reports for the process.
Outcome(returncode) == IF returncode[1] # 0 THEN "failure" ELSE "success"

\* _monitor_bot_process(index, process): communicate() returns once the
\* process has exited; then, under the lock, the entry of index is deleted.
MonitorBotProcess(p) ==
  /\ pc # "done"
  /\ p \in DOMAIN procs
  /\ procs[p].mon = "waiting"
  /\ procs[p].status = "exited"
  /\ lock = FALSE
  /\ running_bots' = MonitorRemove(running_bots, procs[p].slot, p)
  /\ procs' = [procs EXCEPT ![p].mon = "done",
                            ![p].outcome = Outcome(procs[p].returncode)]
  /\ UNCHANGED <<envVars, data, lock, monitoring, pc, inTry,
                 new_data, idx, loopVars, sdVars, exitCause, passHist>>
  /\ UNCHANGED <<cli, worker_codes, chat>>

\* -------------------------------------------------- reconciliation pass
\* Where _start_new_bots returns to: line 172 in the loop, line 157 before it.
AfterPass == IF inTry THEN "set_last_mod" ELSE "init_exists"

\* line 114: new_count > current_count
CountIncreasedOrEqual(nd, bots) == Len(nd) >= Len(bots)
CountIncreased(nd, bots) == Len(nd) > Len(bots)

\* A loop that starts every slot, registered or not.
NeedsStartAlways(i, bots) == TRUE

\* line 116: i not in self.running_bots
NeedsStart(i, bots) == ~Has(bots, i)

\* lines 117-119: the slot was declared before and its record differs.
ConfigChanged(i, old, nd) == i < Len(old) /\ old[i + 1] # nd[i + 1]

\* _start_bot_process without the check of lines 62-63.
MaySpawnUnchecked(i, s) == i < Len(LoadData(s))

\* _start_bot_process, lines 57-60: the store is read again; the index must be
\* in range of what is read.
IndexInRange(i, s) == i < Len(LoadData(s))

\* _start_bot_process, lines 57-63: the store is read again; the index must
\* be in range and the record valid for Popen to be called.
MaySpawn(i, s) ==
  LET current_data == LoadData(s)
  IN  i < Len(current_data) /\ ValidateBotConfig(current_data[i + 1])

\* _start_bot_process returns None: the index is out of range (line 59), the
\* record is invalid (line 63), or Popen raised (lines 77-79).
StartFailure(i, s) ==
  IF ~IndexInRange(i, s) THEN "Range"
  ELSE IF ~MaySpawn(i, s) THEN "Invalid"
  ELSE "PopenError"

\* A new Popen object and its monitor thread.
NewProc(i) == [slot |-> i, status |-> "running", returncode |-> <<>>,
               termReq |-> FALSE, waited |-> "none", killed |-> FALSE,
               mon |-> "waiting", outcome |-> "none"]

\* A pass that goes on with whatever was loaded.
NothingLoadedNever(nd) == FALSE

\* line 106: not new_data
NothingLoaded(nd) == nd = <<>>

\* _start_new_bots, lines 104-114: load; return when nothing is loaded;
\* otherwise take the lock and compare the counts.
RecLoad ==
  /\ pc = "rec_load"
  /\ LET nd == LoadData(store)
     IN  /\ new_data' = nd
         /\ passBots' = running_bots
         /\ passOld' = data
         /\ passLog' = <<>>
         /\ passSame' = stable
         /\ stable' = TRUE
         /\ IF NothingLoaded(nd)
              THEN /\ pc' = "rec_ret"
                   /\ UNCHANGED <<lock, idx>>
              ELSE /\ lock' = TRUE
                   /\ idx' = 0
                   /\ pc' = IF CountIncreased(nd, running_bots)
                              THEN "rec_iter" ELSE "rec_end"
  /\ UNCHANGED <<envVars, data, running_bots, monitoring, procs, inTry,
                 loopVars, sdVars, exitCause>>
  /\ UNCHANGED <<cli, worker_codes, chat>>

\* _start_new_bots, lines 115-135: one iteration of the for loop.
RecIter ==
  /\ pc = "rec_iter"
  /\ LET i == idx
         needs == NeedsStart(i, running_bots)
         stopOld == needs /\ ConfigChanged(i, data, new_data)
                          /\ Has(running_bots, i)
         bots1 == IF stopOld THEN Del(running_bots, i) ELSE running_bots
         procs1 == IF stopOld
                     THEN [procs EXCEPT ![ProcOf(running_bots, i)].termReq = TRUE]
                     ELSE procs
         log1 == IF stopOld THEN Append(passLog, <<"Stop", i>>) ELSE passLog
         popen == IF Len(procs) < MaxProcs THEN {TRUE, FALSE} ELSE {FALSE}
     IN  /\ IF ~needs
              THEN UNCHANGED <<running_bots, procs, passLog>>
              ELSE \E ok \in popen :
                     IF ok /\ MaySpawn(i, store)
                       THEN /\ procs' = Append(procs1, NewProc(i))
                            /\ running_bots' = Put(bots1, i, Len(procs) + 1)
                            /\ passLog' = log1 \o <<<<"Attempt", i>>, <<"Spawn", i>>>>
                       ELSE /\ procs' = procs1
                            /\ running_bots' = bots1
                            /\ passLog' = log1 \o <<<<"Attempt", i>>,
                                                    <<StartFailure(i, store), i>>>>
         /\ idx' = i + 1
         /\ pc' = IF i + 1 < Len(new_data) THEN "rec_iter" ELSE "rec_end"
  /\ UNCHANGED <<envVars, data, lock, monitoring, inTry, new_data,
                 loopVars, sdVars, exitCause,
                 passBots, passOld, passSame, stable>>
  /\ UNCHANGED <<cli, worker_codes, chat>>

\* _start_new_bots, line 137, and the release of the lock.
RecEnd ==
  /\ pc = "rec_end"
  /\ data' = new_data
  /\ lock' = FALSE
  /\ pc' = "rec_ret"
  /\ UNCHANGED <<envVars, running_bots, monitoring, procs, inTry, new_data, idx,
                 loopVars, sdVars, exitCause,
                 passBots, passOld, passLog, passSame, stable>>
  /\ UNCHANGED <<cli, worker_codes, chat>>

\* _start_new_bots returns (line 107 or the end of the function): its locals
\* and the history of the pass are dropped.
RecReturn ==
  /\ pc = "rec_ret"
  /\ pc' = AfterPass
  /\ new_data' = <<>>
  /\ idx' = 0
  /\ passBots' = <<>>
  /\ passOld' = <<>>
  /\ passLog' = <<>>
  /\ passSame' = FALSE
  /\ UNCHANGED <<envVars, data, running_bots, lock, monitoring, procs, inTry,
                 loopVars, sdVars, exitCause, stable>>
  /\ UNCHANGED <<cli, worker_codes, chat>>


\* ----------------------------------------------------------- control loop
\* An exception or the end of the loop leaves the frames of _start_new_bots
\* and of the loop body: their locals and the history of the pass are dropped.
Unwind ==
  /\ new_data' = <<>>
  /\ idx' = 0
  /\ last_mod_time' = 0
  /\ current_mod_time' = 0
  /\ passBots' = <<>>
  /\ passOld' = <<>>
  /\ passLog' = <<>>
  /\ passSame' = FALSE
  /\ stable' = FALSE

\* start_monitoring, line 158: does the store exist?
InitExists ==
  /\ pc = "init_exists"
  /\ pc' = IF Exists(store) THEN "init_getmtime" ELSE "set_monitoring"
  /\ UNCHANGED <<envVars, data, running_bots, lock, monitoring, procs, inTry,
                 new_data, idx, loopVars, sdVars, exitCause, passHist>>
  /\ UNCHANGED <<cli, worker_codes, chat>>

\* start_monitoring, line 159: getmtime raises OSError when the store has
\* been deleted since line 158; outside the try block the error leaves
\* start_monitoring at once.
InitGetmtime ==
  /\ pc = "init_getmtime"
  /\ IF Exists(store)
       THEN /\ last_mod_time' = mtime
            /\ pc' = "set_monitoring"
            /\ UNCHANGED exitCause
            /\ UNCHANGED <<new_data, idx, current_mod_time, passHist>>
       ELSE /\ exitCause' = "oserror"
            /\ pc' = "done"
            /\ Unwind
  /\ UNCHANGED <<envVars, data, running_bots, lock, monitoring, procs, inTry, sdVars>>
  /\ UNCHANGED <<cli, worker_codes, chat>>

\* start_monitoring, lines 161-163: the flag is set and the try block entered.
SetMonitoring ==
  /\ pc = "set_monitoring"
  /\ monitoring' = TRUE
  /\ inTry' = TRUE
  /\ pc' = "loop_test"
  /\ UNCHANGED <<envVars, data, running_bots, lock, procs,
                 new_data, idx, loopVars, sdVars, exitCause, passHist>>
  /\ UNCHANGED <<cli, worker_codes, chat>>

\* start_monitoring, line 164: while self.monitoring; the finally clause
\* runs when the flag is cleared.
LoopTest ==
  /\ pc = "loop_test"
  /\ IF monitoring
       THEN /\ pc' = "poll_exists"
            /\ UNCHANGED <<exitCause, new_data, idx, loopVars, passHist>>
       ELSE /\ pc' = "sd_begin"
            /\ exitCause' = "stop"
            /\ Unwind
  /\ UNCHANGED <<envVars, data, running_bots, lock, monitoring, procs, inTry, sdVars>>
  /\ UNCHANGED <<cli, worker_codes, chat>>

\* start_monitoring, line 166.
PollExists ==
  /\ pc = "poll_exists"
  /\ pc' = IF Exists(store) THEN "poll_getmtime" ELSE "cleanup"
  /\ UNCHANGED <<envVars, data, running_bots, lock, monitoring, procs, inTry,
                 new_data, idx, loopVars, sdVars, exitCause, passHist>>
  /\ UNCHANGED <<cli, worker_codes, chat>>

\* line 168: current_mod_time > last_mod_time
Changed(cur, last) == cur > last

\* A loop that calls _start_new_bots as soon as the change is seen.
AfterDetectNoDelay == "rec_load"

\* lines 169-170: a detected change is followed by time.sleep(0.5).
AfterDetect == "settle"

\* start_monitoring, lines 167-169: getmtime raises OSError when the store
\* has been deleted since line 166; only KeyboardInterrupt is caught, so the
\* finally clause runs and the error leaves start_monitoring.
PollGetmtime ==
  /\ pc = "poll_getmtime"
  /\ IF Exists(store)
       THEN /\ current_mod_time' = mtime
            /\ pc' = IF Changed(mtime, last_mod_time) THEN AfterDetect ELSE "cleanup"
            /\ UNCHANGED <<exitCause, new_data, idx, last_mod_time, passHist>>
       ELSE /\ exitCause' = "oserror"
            /\ pc' = "sd_begin"
            /\ Unwind
  /\ UNCHANGED <<envVars, data, running_bots, lock, monitoring, procs, inTry, sdVars>>
  /\ UNCHANGED <<cli, worker_codes, chat>>

\* start_monitoring, line 170: time.sleep(0.5), then _start_new_bots.
Settle ==
  /\ pc = "settle"
  /\ pc' = "rec_load"
  /\ UNCHANGED <<envVars, data, running_bots, lock, monitoring, procs, inTry,
                 new_data, idx, loopVars, sdVars, exitCause, passHist>>
  /\ UNCHANGED <<cli, worker_codes, chat>>

\* start_monitoring, line 172.
SetLastMod ==
  /\ pc = "set_last_mod"
  /\ last_mod_time' = current_mod_time
  /\ pc' = "cleanup"
  /\ UNCHANGED <<envVars, data, running_bots, lock, monitoring, procs, inTry,
                 new_data, idx, current_mod_time, sdVars, exitCause, passHist>>
  /\ UNCHANGED <<cli, worker_codes, chat>>

\* _cleanup_finished_bots, lines 141-148: the registry without the entries
\* whose process has exited (poll() is not None).
Finished(bots, ps) == {bots[k].index : k \in {j \in DOMAIN bots : ps[bots[j].process].status = "exited"}}
CleanedBots(bots, ps) == SelectSeq(bots, LAMBDA e : e.index \notin Finished(bots, ps))

\* start_monitoring, line 174: _cleanup_finished_bots, under the lock.
Cleanup ==
  /\ pc = "cleanup"
  /\ running_bots' = CleanedBots(running_bots, procs)
  /\ pc' = "sleep"
  /\ UNCHANGED <<envVars, data, lock, monitoring, procs, inTry,
                 new_data, idx, loopVars, sdVars, exitCause, passHist>>
  /\ UNCHANGED <<cli, worker_codes, chat>>

\* start_monitoring, line 176: time.sleep(1).
Sleep ==
  /\ pc = "sleep"
  /\ pc' = "loop_test"
  /\ UNCHANGED <<envVars, data, running_bots, lock, monitoring, procs, inTry,
                 new_data, idx, loopVars, sdVars, exitCause, passHist>>
  /\ UNCHANGED <<cli, worker_codes, chat>>

\* stop_monitoring, line 203, called from another thread.
StopMonitoring ==
  /\ pc # "done"
  /\ monitoring
  /\ monitoring' = FALSE
  /\ UNCHANGED <<envVars, data, running_bots, lock, procs, pc, inTry,
                 new_data, idx, loopVars, sdVars, exitCause, passHist>>
  /\ UNCHANGED <<cli, worker_codes, chat>>

\* KeyboardInterrupt in the control thread: a with block releases the lock;
\* inside the try block (lines 163-181) the finally clause runs the
\* shutdown, before it (lines 151-161) the exception leaves start_monitoring.
Interrupt ==
  /\ pc \in Running
  /\ exitCause' = "interrupt"
  /\ lock' = FALSE
  /\ pc' = IF inTry THEN "sd_begin" ELSE "done"
  /\ Unwind
  /\ UNCHANGED <<envVars, data, running_bots, monitoring, procs, inTry, sdVars>>
  /\ UNCHANGED <<cli, worker_codes, chat>>

\* ---------------------------------------------------------------- shutdown
\* _shutdown_all_bots, lines 184-186: take the lock, iterate over the items.
SdBegin ==
  /\ pc = "sd_begin"
  /\ lock' = TRUE
  /\ sdRan' = TRUE
  /\ sdTodo' = running_bots
  /\ pc' = "sd_iter"
  /\ UNCHANGED <<envVars, data, running_bots, monitoring, procs, inTry,
                 new_data, idx, loopVars, exitCause, sdErr, passHist>>
  /\ UNCHANGED <<cli, worker_codes, chat>>

\* lines 187-189 and 196-197: terminate is called on the next process; when it
\* raises, the loop goes on with the next entry, otherwise it waits.
SdTerminate ==
  /\ pc = "sd_iter"
  /\ sdTodo # <<>>
  /\ LET e == Head(sdTodo)
     IN  \/ /\ procs' = [procs EXCEPT ![e.process].termReq = TRUE]
            /\ pc' = "sd_wait"
            /\ UNCHANGED <<sdTodo, sdErr>>
         \/ /\ sdErr' = sdErr \cup {e.index}
            /\ sdTodo' = Tail(sdTodo)
            /\ UNCHANGED <<procs, pc>>
  /\ UNCHANGED <<envVars, data, running_bots, lock, monitoring, inTry,
                 new_data, idx, loopVars, exitCause, sdRan, passHist>>
  /\ UNCHANGED <<cli, worker_codes, chat>>

\* How process.wait(timeout=5) of line 192 can end: the process has exited
\* or exits within the five seconds, or TimeoutExpired is raised.
SdWaitOutcomes(proc) ==
  IF proc.status = "exited" THEN {"exited"} ELSE {"exited", "timeout"}

\* returncode after the wait and the kill: that of a process that had exited
\* before, -SIGKILL after the kill, -SIGTERM when terminate ended it (the
\* worker installs no handler).
SdReturncode(proc, o) ==
  IF proc.status = "exited" THEN proc.returncode
  ELSE IF o = "timeout" THEN <<-9>>
  ELSE <<-15>>

\* A shutdown that kills whatever the wait returns.
SdKillAlways(o) == TRUE

\* lines 193-195: kill is called in the handler of TimeoutExpired.
SdKill(o) == o = "timeout"

\* lines 191-195: the wait on the process terminate was called on, and the
\* kill after a timeout; then the next entry.
SdWait ==
  /\ pc = "sd_wait"
  /\ LET e == Head(sdTodo)
     IN  \E o \in SdWaitOutcomes(procs[e.process]) :
           procs' = [procs EXCEPT ![e.process].waited = o,
                                  ![e.process].killed = SdKill(o),
                                  ![e.process].status = "exited",
                                  ![e.process].returncode =
                                     SdReturncode(procs[e.process], o)]
  /\ sdTodo' = Tail(sdTodo)
  /\ pc' = "sd_iter"
  /\ UNCHANGED <<envVars, data, running_bots, lock, monitoring, inTry,
                 new_data, idx, loopVars, exitCause, sdRan, sdErr, passHist>>
  /\ UNCHANGED <<cli, worker_codes, chat>>

\* line 199: self.running_bots.clear(), after the loop and outside its try.
ClearKeepFailed(bots, errs) == SelectSeq(bots, LAMBDA e : e.index \in errs)
ClearedBots(bots, errs) == <<>>

\* Where the control thread is once the finally clause of line 180 is over:
\* start_monitoring returns.
AfterShutdownLoop == "loop_test"
AfterShutdown == "done"

\* _shutdown_all_bots, lines 199-200, and the return of start_monitoring.
SdClear ==
  /\ pc = "sd_iter"
  /\ sdTodo = <<>>
  /\ running_bots' = ClearedBots(running_bots, sdErr)
  /\ lock' = FALSE
  /\ pc' = AfterShutdown
  /\ UNCHANGED <<envVars, data, monitoring, procs, inTry,
                 new_data, idx, loopVars, sdTodo, exitCause, sdRan, sdErr, passHist>>
  /\ UNCHANGED <<cli, worker_codes, chat>>

\* ----------------------------------------------------------- specification
\* The steps of the control thread.
Control ==
  \/ RecLoad \/ RecIter \/ RecEnd \/ RecReturn
  \/ InitExists \/ InitGetmtime \/ SetMonitoring
  \/ LoopTest \/ PollExists \/ PollGetmtime \/ Settle \/ SetLastMod
  \/ Cleanup \/ Sleep
  \/ SdBegin \/ SdTerminate \/ SdWait \/ SdClear

Next ==
  \/ Control
  \/ Interrupt
  \/ StopMonitoring
  \/ \E l \in Lists : StoreWrite(l)
  \/ StoreCorrupt
  \/ StoreDelete
  \/ \E p \in 1..MaxProcs : WorkerExit(p)
  \/ \E p \in 1..MaxProcs : MonitorBotProcess(p)

Spec == Init /\ [][Next]_vars

\* The control thread is scheduled as long as it has a step to take.
FairSpec == Spec /\ WF_vars(Control)

\* The supervisor with workers that can fail, over a store whose content is
\* only ever written back as it is (the modification time advances).
MonNext ==
  \/ Control
  \/ StoreWrite(LoadData(store))
  \/ Interrupt
  \/ StopMonitoring
  \/ \E p \in 1..MaxProcs : WorkerExit(p)
  \/ \E p \in 1..MaxProcs : MonitorBotProcess(p)

MonSpec == MonInit /\ [][MonNext]_vars

\* The control thread is scheduled as long as it has a step to take.
MonFairSpec == MonSpec /\ WF_vars(Control)

\* ----------------------------------------------------------- command line
\* Everything but the invocation of main().
supVars == <<store, mtime, data, running_bots, lock, monitoring, procs, pc, inTry,
             new_data, idx, last_mod_time, current_mod_time, sdTodo, exitCause,
             sdRan, sdErr, passBots, passOld, passLog, passSame, stable>>

\* One printed line: a message, or the row list_bots prints for a slot.
Line(kind) == [kind |-> kind, slot |-> -1, chance |-> 0, status |-> ""]
Row(i, config, bots) ==
  [kind |-> "row", slot |-> i, chance |-> config.msg_chance,
   status |-> IF Has(bots, i) THEN "Running" ELSE "Stopped"]

\* list_bots, lines 206-215, on a monitor object with the given data and
\* running_bots.
ListBots(d, bots) ==
  IF d = <<>>
    THEN <<Line("No bot configurations found.")>>
    ELSE <<Line("Found")>> \o [k \in 1 .. Len(d) |-> Row(k - 1, d[k], bots)]

\* main, line 219: monitor = BotMonitor(), that is __init__ (lines 10-15).
CliConstruct ==
  /\ cli.pc = "main"
  /\ cli' = [cli EXCEPT !.data = LoadData(store), !.bots = <<>>, !.pc = "dispatch"]
  /\ UNCHANGED <<supVars, worker_codes, chat>>

\* main, lines 222-224: no argument, start_monitoring is entered.
CliStartMonitoring ==
  /\ cli.pc = "dispatch"
  /\ Len(cli.argv) = 1
  /\ cli' = [cli EXCEPT !.pc = "monitoring"]
  /\ UNCHANGED <<supVars, worker_codes, chat>>

\* main, lines 228-229: list.
CliList ==
  /\ cli.pc = "dispatch"
  /\ Len(cli.argv) = 2
  /\ cli.argv[2] = "list"
  /\ cli' = [cli EXCEPT !.out = ListBots(cli.data, cli.bots), !.pc = "returned"]
  /\ UNCHANGED <<supVars, worker_codes, chat>>

\* main, lines 230-234: help.
CliHelp ==
  /\ cli.pc = "dispatch"
  /\ Len(cli.argv) = 2
  /\ cli.argv[2] = "help"
  /\ cli' = [cli EXCEPT !.out = <<Line("Usage:")>>, !.pc = "returned"]
  /\ UNCHANGED <<supVars, worker_codes, chat>>

\* main, lines 235-237: any other single argument.
CliUnknown ==
  /\ cli.pc = "dispatch"
  /\ Len(cli.argv) = 2
  /\ cli.argv[2] \notin {"list", "help"}
  /\ cli' = [cli EXCEPT !.out = <<Line("Error: not a valid command"),
                                  Line("Use help for usage information")>>,
                        !.pc = "returned"]
  /\ UNCHANGED <<supVars, worker_codes, chat>>

\* main, lines 238-240: more than one argument.
CliTooMany ==
  /\ cli.pc = "dispatch"
  /\ Len(cli.argv) > 2
  /\ cli' = [cli EXCEPT !.out = <<Line("Error: Too many arguments"),
                                  Line("Use help for usage information")>>,
                        !.pc = "returned"]
  /\ UNCHANGED <<supVars, worker_codes, chat>>

\* lines 242-243: main() returns and the interpreter exits; no branch of main
\* calls sys.exit, so the exit status is that of a normal return.
CliExit ==
  /\ cli.pc = "returned"
  /\ cli' = [cli EXCEPT !.status = 0, !.pc = "exited"]
  /\ UNCHANGED <<supVars, worker_codes, chat>>

\* The slots of l whose record is valid (1-based), and the k-th of them.
ValidSlots(l) == {i \in 1 .. Len(l) : ValidateBotConfig(l[i])}
KthOf(S, k) == CHOOSE i \in S : Cardinality({j \in S : j <= i}) = k

\* A supervisor that has gone through its first pass, in which every spawn
\* succeeded, and through one polling cycle, the store not being modified:
\* the registry and the processes it then holds for the list l.
SupervisorBots(l) ==
  [k \in 1 .. Cardinality(ValidSlots(l)) |->
     [index |-> KthOf(ValidSlots(l), k) - 1, process |-> k]]
SupervisorProcs(l) ==
  [k \in 1 .. Cardinality(ValidSlots(l)) |-> NewProc(KthOf(ValidSlots(l), k) - 1)]

\* Such a supervisor sleeps in its loop (line 176).
SupervisorAsleep ==
  /\ mtime = 1
  /\ data = LoadData(store)
  /\ running_bots = SupervisorBots(data)
  /\ procs = SupervisorProcs(data)
  /\ lock = FALSE
  /\ monitoring = TRUE
  /\ pc = "sleep"
  /\ inTry = TRUE
  /\ new_data = <<>>
  /\ idx = 0
  /\ last_mod_time = (IF Exists(store) THEN 1 ELSE 0)
  /\ current_mod_time = (IF Exists(store) THEN 1 ELSE 0)
  /\ sdTodo = <<>>
  /\ exitCause = "none"
  /\ sdRan = FALSE
  /\ sdErr = {}
  /\ passBots = <<>>
  /\ passOld = <<>>
  /\ passLog = <<>>
  /\ passSame = FALSE
  /\ stable = TRUE

\* The command line is invoked in a second process while such a supervisor
\* runs.
CliInit ==
  /\ store \in InitStores
  /\ chat = ChatIdle
  /\ worker_codes = CleanCodes
  /\ SupervisorAsleep
  /\ cli \in {CliEntered(a) : a \in Argvs}

CliNext ==
  \/ CliConstruct
  \/ CliStartMonitoring
  \/ CliList
  \/ CliHelp
  \/ CliUnknown
  \/ CliTooMany
  \/ CliExit

CliSpec == CliInit /\ [][CliNext]_vars

\* ------------------------------------------------------- chat history (ai.py)
\* One message of a history.
Entry(role, b, n) == [role |-> role, bot |-> b, call |-> n]

\* _load_all_histories, lines 29-37: the list in chat.json, cut to its last
\* HistoryCap elements; [] when the file does not exist.
LoadAllHistories(file) ==
  IF Len(file) > HistoryCap
    THEN SubSeq(file, Len(file) - HistoryCap + 1, Len(file))
    ELSE file

\* _ensure_history_exists, lines 44-49: histories with the system prompt are
\* appended until index bot_id exists.
EnsureHistoryExists(histories, b) ==
  IF Len(histories) > b
    THEN histories
    ELSE histories \o [k \in 1 .. (b + 1 - Len(histories)) |-> <<Entry("system", -1, 0)>>]

\* lines 123-126 and 75-76: the entries are appended to the history of b in
\* the list loaded before, and _save_all_histories writes that list over the
\* file.
SaveAppended(file, histories, b, new) ==
  [histories EXCEPT ![b + 1] = histories[b + 1] \o new]

\* Worker b runs under the supervisor and may begin another call.
MayCall(b) ==
  /\ Has(running_bots, b)
  /\ procs[ProcOf(running_bots, b)].status = "running"
  /\ chat.w[b].pc = "idle"
  /\ chat.w[b].calls < MaxCalls

\* get_ai_response, lines 87-109: the history is read for the request and the
\* request is sent.
GetAiResponse(b) ==
  /\ MayCall(b)
  /\ chat' = [chat EXCEPT !.w[b].pc = "request", !.w[b].calls = @ + 1]
  /\ UNCHANGED <<supVars, cli, worker_codes>>

\* lines 111-118: the completion arrives.
Completion(b) ==
  /\ chat.w[b].pc = "request"
  /\ chat' = [chat EXCEPT !.w[b].pc = "load"]
  /\ UNCHANGED <<supVars, cli, worker_codes>>

\* line 111: the request raises; get_ai_response is left without a save.
CompletionFails(b) ==
  /\ chat.w[b].pc = "request"
  /\ chat' = [chat EXCEPT !.w[b].pc = "idle"]
  /\ UNCHANGED <<supVars, cli, worker_codes>>

\* lines 120-121: the histories are loaded again.
LoadForResponse(b) ==
  /\ chat.w[b].pc = "load"
  /\ chat' = [chat EXCEPT
                !.w[b].pc = "save",
                !.w[b].histories = EnsureHistoryExists(LoadAllHistories(chat.file), b)]
  /\ UNCHANGED <<supVars, cli, worker_codes>>

\* lines 123-126: the message and the reply are appended and all histories
\* are saved.
SaveResponse(b) ==
  /\ chat.w[b].pc = "save"
  /\ LET new == <<Entry("user", b, chat.w[b].calls),
                  Entry("assistant", b, chat.w[b].calls)>>
     IN  chat' = [chat EXCEPT
                    !.file = SaveAppended(chat.file, chat.w[b].histories, b, new),
                    !.saved = @ \cup {new[1], new[2]},
                    !.w[b].pc = "idle",
                    !.w[b].histories = <<>>]
  /\ UNCHANGED <<supVars, cli, worker_codes>>

\* add_to_history, lines 52-53: load.
LoadForAdd(b) ==
  /\ MayCall(b)
  /\ chat' = [chat EXCEPT
                !.w[b].pc = "add_save",
                !.w[b].calls = @ + 1,
                !.w[b].histories = EnsureHistoryExists(LoadAllHistories(chat.file), b)]
  /\ UNCHANGED <<supVars, cli, worker_codes>>

\* add_to_history, lines 75-76: append the message and save.
SaveAdd(b) ==
  /\ chat.w[b].pc = "add_save"
  /\ LET new == <<Entry("info", b, chat.w[b].calls)>>
     IN  chat' = [chat EXCEPT
                    !.file = SaveAppended(chat.file, chat.w[b].histories, b, new),
                    !.w[b].pc = "idle",
                    !.w[b].histories = <<>>]
  /\ UNCHANGED <<supVars, cli, worker_codes>>

\* Two workers run under a supervisor that sleeps in its loop, and use the
\* same chat.json.
HistInit ==
  /\ store = StoreList(<<CfgA, CfgA2>>)
  /\ SupervisorAsleep
  /\ cli = CliMonitoring
  /\ worker_codes = CleanCodes
  /\ chat = ChatIdle

HistNext ==
  \E b \in BotIds :
    \/ GetAiResponse(b)
    \/ Completion(b)
    \/ CompletionFails(b)
    \/ LoadForResponse(b)
    \/ SaveResponse(b)
    \/ LoadForAdd(b)
    \/ SaveAdd(b)

HistSpec == HistInit /\ [][HistNext]_vars

\* ------------------------------------------------------------- properties
\* Slot indices of a declared list.
Slots(l) == 0 .. (Len(l) - 1)
\* The actions of the current pass that concern slot i, in order.
LogFor(i) == SelectSeq(passLog, LAMBDA e : e[2] = i)
\* The current pass did op on slot i.
Logged(op, i) == \E k \in DOMAIN passLog : passLog[k] = <<op, i>>
\* How often the current pass did op on slot i.
Count(op, i) == Cardinality({k \in DOMAIN passLog : passLog[k] = <<op, i>>})
\* Processes that run and were never sent terminate.
Unsignalled == {p \in DOMAIN procs : procs[p].status = "running" /\ ~procs[p].termReq}

\* C1: when a pass over a non-empty list returns, _start_bot_process has been
\* called for every slot of the list that had no registry entry when the
\* pass began.
C1_StartsEveryMissingSlot ==
  (pc = "rec_ret" /\ new_data # <<>>) =>
    \A i \in Slots(new_data) : ~Has(passBots, i) => Logged("Attempt", i)

\* C2: when a pass returns, every slot that is in the old and in the new list
\* with differing records and had a registry entry has been stopped and then
\* started, in that order and only once.
C2_RestartOnChange ==
  pc = "rec_ret" =>
    \A i \in Slots(new_data) \cap Slots(passOld) :
      (passOld[i + 1] # new_data[i + 1] /\ Has(passBots, i)) =>
        /\ Len(LogFor(i)) = 3
        /\ LogFor(i)[1] = <<"Stop", i>>
        /\ LogFor(i)[2] = <<"Attempt", i>>

\* C3: when a pass returns with a list shorter than the old one, every
\* registered slot that is in the old list only has been stopped exactly once.
C3_ShrinkStopsOrphans ==
  (pc = "rec_ret" /\ Len(new_data) < Len(passOld)) =>
    \A i \in Slots(passOld) \ Slots(new_data) :
      Has(passBots, i) => Count("Stop", i) = 1

\* C4: when a pass that loaded nothing returns, every slot that was in the
\* registry has been stopped and nothing has been started.
C4_EmptyStopsAll ==
  (pc = "rec_ret" /\ new_data = <<>>) =>
    /\ \A i \in Keys(passBots) : Logged("Stop", i)
    /\ \A i \in 0 .. (MaxLen - 1) : ~Logged("Attempt", i)

\* The current pass has started no process and terminated none.
NoProcessAction ==
  \A i \in 0 .. (MaxLen - 1) : ~Logged("Spawn", i) /\ ~Logged("Stop", i)

\* C5 (as claimed): a pass that reads the content the previous pass read, the
\* store content not having changed in between, starts and terminates nothing.
C5_SecondPassNoAction ==
  (pc = "rec_ret" /\ passSame) => NoProcessAction

\* C5 (amended): such a pass does nothing when it finds at least as many
\* registry entries as the list has slots, in particular when every declared
\* slot is registered; at line 137, still under the lock, the registry is the
\* one the pass found.
C5_SecondPassNoActionWhenFull ==
  (passSame /\ Len(new_data) <= Len(passBots)) =>
    /\ pc \in {"rec_end", "rec_ret"} => NoProcessAction
    /\ pc = "rec_end" => running_bots = passBots

\* C5 witness: a second pass over unchanged content returns, every declared
\* slot being registered.
C5_Witness ==
  /\ pc = "rec_ret"
  /\ passSame
  /\ new_data # <<>>
  /\ Keys(passBots) = Slots(new_data)

\* C6: no two running processes were started for the same slot.
C6_OneLiveProcessPerSlot ==
  \A p, q \in DOMAIN procs :
    (p # q /\ procs[p].status = "running" /\ procs[q].status = "running")
      => procs[p].slot # procs[q].slot

\* C7: once _shutdown_all_bots has completed the registry is empty.
C7_ShutdownEmptiesRegistry ==
  (pc = "done" /\ sdRan) => running_bots = <<>>

\* C7 witness: a shutdown completed in which terminate raised for one worker
\* and another worker had to be killed.
C7_Witness ==
  /\ pc = "done"
  /\ sdRan
  /\ sdErr # {}
  /\ \E p \in DOMAIN procs : procs[p].killed

\* C8: when start_monitoring is left by an interrupt while a started worker
\* runs that was never sent terminate, the shutdown has run.
C8_InterruptRunsShutdown ==
  (pc = "done" /\ exitCause = "interrupt" /\ Unsignalled # {}) => sdRan

\* The loop has finished a polling cycle with slot i declared by a valid
\* record, applied, not registered, and no modification of the store pending
\* (the marker last recorded is the current one).
DeclaredNotLive(i) ==
  /\ pc = "sleep"
  /\ monitoring
  /\ store.kind = "list"
  /\ data = store.list
  /\ i < Len(data)
  /\ ValidateBotConfig(data[i + 1])
  /\ ~Has(running_bots, i)
  /\ last_mod_time = mtime

\* The pass is about to call _start_bot_process for slot i.
StartAttempt(i) == pc = "rec_iter" /\ idx = i /\ NeedsStart(i, running_bots)

\* C9: from such a state, unless the store is modified or monitoring ends,
\* a start of slot i is eventually attempted.
C9_NotLiveIsRetried ==
  \A i \in 0 .. (MaxLen - 1) :
    DeclaredNotLive(i) ~>
      (StartAttempt(i) \/ mtime # last_mod_time \/ ~Exists(store) \/ ~monitoring
         \/ pc \notin Running)

\* C10: the polling loop is left only by an interrupt or a stop request.
C10_LoopLeftOnlyOnRequest ==
  (inTry /\ pc \notin Running) => exitCause \in {"interrupt", "stop"}


\* C11: an invocation with an unknown argument or with more than one
\* argument exits with a non-zero status.
C11_BadArgumentsExitNonZero ==
  (cli.pc = "exited"
     /\ (Len(cli.argv) > 2 \/ (Len(cli.argv) = 2 /\ cli.argv[2] \notin {"list", "help"})))
    => cli.status # 0

\* The worker of slot i runs under the supervisor.
RunsUnderSupervisor(i) ==
  Has(running_bots, i) /\ procs[ProcOf(running_bots, i)].status = "running"

\* C12: the list command prints status Running for every declared slot whose
\* worker runs under the supervisor.
C12_ListReportsRunning ==
  (cli.pc = "exited" /\ cli.argv = <<"bot_monitor.py", "list">>) =>
    \A k \in DOMAIN cli.out :
      (cli.out[k].kind = "row" /\ RunsUnderSupervisor(cli.out[k].slot))
        => cli.out[k].status = "Running"


\* A step that creates a process is a step of the pass at a slot whose record,
\* in the store as _start_bot_process reads it, has every required field.
SpawnsValidRecordOnly ==
  Len(procs') > Len(procs) =>
    /\ pc = "rec_iter"
    /\ procs'[Len(procs')].slot = idx
    /\ idx < Len(LoadData(store))
    /\ required_fields \subseteq LoadData(store)[idx + 1].fields

\* The loop of a pass is over and the start of a slot failed validation in it:
\* every other slot without a registry entry at the beginning of the pass was
\* started, unless its own start failed; with the store not modified since
\* the pass loaded it, every other such slot with a valid record was started
\* unless Popen raised for it.
InvalidSlotDoesNotAbort ==
  pc \in {"rec_end", "rec_ret"} =>
    \A i \in Slots(new_data) :
      Logged("Invalid", i) =>
        /\ ~Logged("Spawn", i)
        /\ \A j \in Slots(new_data) \ {i} :
             ~Has(passBots, j) =>
               /\ Count("Attempt", j) = 1
               /\ \/ Logged("Spawn", j)
                  \/ Logged("Invalid", j)
                  \/ Logged("Range", j)
                  \/ Logged("PopenError", j)
               /\ (stable /\ ValidateBotConfig(new_data[j + 1])
                     /\ ~Logged("PopenError", j))
                    => /\ Count("Spawn", j) = 1
                       /\ pc = "rec_end" => Has(running_bots, j)

\* C13: a slot whose record lacks a required field is never spawned, and the
\* pass in which its start fails still starts every other valid slot that has
\* no registry entry.
C13_InvalidSlotSkippedPassGoesOn ==
  [][SpawnsValidRecordOnly /\ InvalidSlotDoesNotAbort']_vars

\* C13 witness: a pass over [invalid, valid] is at line 137, the store not
\* modified; slot 0 failed validation and slot 1 was spawned and registered.
C13_Witness ==
  /\ pc = "rec_end"
  /\ stable
  /\ Len(new_data) = 2
  /\ ~ValidateBotConfig(new_data[1])
  /\ Logged("Invalid", 0)
  /\ ~Has(running_bots, 0)
  /\ Logged("Spawn", 1)
  /\ Has(running_bots, 1)


\* The processes the current pass has created.
SpawnedInPass == {k \in DOMAIN passLog : passLog[k][1] = "Spawn"}

\* The pass found an empty registry, every record it loaded is valid, the
\* store has not been modified since, and no Popen of the pass raised.
FreshPassAllSucceed ==
  /\ passBots = <<>>
  /\ stable
  /\ \A i \in Slots(new_data) :
       ValidateBotConfig(new_data[i + 1]) /\ ~Logged("PopenError", i)

\* C14: when the loop of such a pass over N records is over, the pass has
\* created exactly N processes, one for each slot 0..N-1, and (at line 137,
\* still under the lock) the registry holds exactly the slots 0..N-1, each
\* with the process created for it in this pass.
C14_FreshPassStartsOnePerSlot ==
  (pc \in {"rec_end", "rec_ret"} /\ FreshPassAllSucceed) =>
    /\ \A i \in Slots(new_data) : Count("Spawn", i) = 1 /\ Count("Attempt", i) = 1
    /\ Cardinality(SpawnedInPass) = Len(new_data)
    /\ pc = "rec_end" =>
         /\ Keys(running_bots) = Slots(new_data)
         /\ Len(running_bots) = Len(new_data)
         /\ \A i \in Slots(new_data) :
              /\ procs[ProcOf(running_bots, i)].slot = i
              /\ ProcOf(running_bots, i) = Len(procs) - Len(new_data) + i + 1

\* C14 witness: such a pass over two records is at line 137.
C14_Witness ==
  /\ pc = "rec_end"
  /\ FreshPassAllSucceed
  /\ Len(new_data) = 2
  /\ Len(running_bots) = 2


\* The loop of _shutdown_all_bots is over and line 199 not yet executed.
SdLoopOver == pc = "sd_iter" /\ sdRan /\ sdTodo = <<>>

\* C15: a process is waited for only after terminate was called on it, and
\* it is killed exactly when that wait timed out, never without terminate
\* and never after it exited within the grace period; when the loop of the
\* shutdown is over this has been done for every process in the registry,
\* except those whose terminate raised.
C15_TerminateWaitKillOnTimeout ==
  /\ \A p \in DOMAIN procs :
       /\ procs[p].waited # "none" => procs[p].termReq
       /\ procs[p].killed => (procs[p].termReq /\ procs[p].waited = "timeout")
       /\ procs[p].waited = "timeout" => procs[p].killed
  /\ SdLoopOver =>
       \A k \in DOMAIN running_bots :
         \/ running_bots[k].index \in sdErr
         \/ /\ procs[running_bots[k].process].termReq
            /\ procs[running_bots[k].process].waited # "none"

\* C15 witness: the loop of a shutdown over two workers is over; one exited
\* within the grace period and was not killed, the other was killed after the
\* timeout.
C15_Witness ==
  /\ SdLoopOver
  /\ Len(running_bots) = 2
  /\ \E k, m \in DOMAIN running_bots :
       /\ procs[running_bots[k].process].waited = "exited"
       /\ ~procs[running_bots[k].process].killed
       /\ procs[running_bots[m].process].waited = "timeout"
       /\ procs[running_bots[m].process].killed

\* C16: while the shutdown waits for one worker, terminate has already been
\* called on every other worker in the registry.
C16_ShutdownsConcurrent ==
  pc = "sd_wait" =>
    \A k \in DOMAIN running_bots :
      \/ running_bots[k].index \in sdErr
      \/ procs[running_bots[k].process].termReq

\* C17: once _shutdown_all_bots has been entered, no step takes the control
\* thread back into the loop or a pass, creates a process, or changes the
\* applied state or the markers of the change detection.
C17_NoPollingAfterShutdown ==
  [][sdRan => /\ pc' \notin Running
              /\ Len(procs') = Len(procs)
              /\ data' = data
              /\ new_data' = new_data
              /\ last_mod_time' = last_mod_time
              /\ current_mod_time' = current_mod_time]_vars

\* C17 witness: start_monitoring has returned after a shutdown that an
\* interrupt began while a change of the store was not yet applied; the
\* monitoring flag is still set.
C17_Witness ==
  /\ pc = "done"
  /\ sdRan
  /\ monitoring
  /\ exitCause = "interrupt"
  /\ LoadData(store) # data
  /\ LoadData(store) # <<>>

\* C18: no step replaces the process of an existing registry entry, and a
\* step that creates a process registers it under a slot that had no entry.
C18_NoOverwriteOfEntry ==
  [][/\ \A i \in Keys(running_bots) :
          Has(running_bots', i) => ProcOf(running_bots', i) = ProcOf(running_bots, i)
     /\ Len(procs') > Len(procs) =>
          /\ ~Has(running_bots, idx)
          /\ Has(running_bots', idx)
          /\ ProcOf(running_bots', idx) = Len(procs')]_vars

\* C18 witness: a pass is at line 137 that found slot 0 registered and left
\* its entry alone, and that spawned and registered slot 1.
C18_Witness ==
  /\ pc = "rec_end"
  /\ Has(passBots, 0)
  /\ ~Logged("Attempt", 0)
  /\ Has(running_bots, 0)
  /\ ProcOf(running_bots, 0) = ProcOf(passBots, 0)
  /\ Logged("Spawn", 1)
  /\ Has(running_bots, 1)

\* The next step of the control thread reads the store and calls Popen
\* (_start_bot_process), or is in process.wait.
BlockingIO == StartAttempt(idx) \/ pc = "sd_wait"

\* C19: the lock is not held while the store is read, a process is spawned or
\* a process is waited for.
C19_NoLockDuringBlockingIO == ~(lock /\ BlockingIO)

\* C20: when the loop of a pass is over, every start it attempted was decided
\* on the list the pass loaded: the index was in range, and the record was
\* rejected exactly when the loaded record is invalid.
C20_PassUsesOneRead ==
  pc \in {"rec_end", "rec_ret"} =>
    \A i \in Slots(new_data) :
      Logged("Attempt", i) =>
        /\ ~Logged("Range", i)
        /\ Logged("Invalid", i) <=> ~ValidateBotConfig(new_data[i + 1])


\* Process p is the process of a registry entry.
Registered(p) == \E k \in DOMAIN running_bots : running_bots[k].process = p

\* What a monitor thread has reported for a process agrees with the exit
\* code: success for 0, failure for anything else.
OutcomeByExitCode ==
  \A p \in DOMAIN procs :
    procs[p].outcome # "none" =>
      /\ procs[p].status = "exited"
      /\ procs[p].returncode # <<>>
      /\ procs[p].outcome \in {"success", "failure"}
      /\ procs[p].outcome = "success" <=> procs[p].returncode[1] = 0

\* C21: a registered process that has exited while the monitoring flag is set
\* is eventually no longer registered, unless start_monitoring has returned;
\* and the outcome reported for a process is success exactly when its exit
\* code is 0.
C21_ExitedRemovedOutcomeByCode ==
  /\ []OutcomeByExitCode
  /\ \A p \in 1 .. MaxProcs :
       (p \in DOMAIN procs /\ Registered(p) /\ procs[p].status = "exited" /\ monitoring)
         ~> (~Registered(p) \/ pc = "done")

\* C21 witness: the loop runs; a worker that exited with code 1 has been
\* removed from the registry and reported as a failure, another that exited
\* with code 0 as a success.
C21_Witness ==
  /\ pc \in Running
  /\ monitoring
  /\ \E p, q \in DOMAIN procs :
       /\ procs[p].returncode = <<1>>
       /\ procs[p].outcome = "failure"
       /\ ~Registered(p)
       /\ procs[q].returncode = <<0>>
       /\ procs[q].outcome = "success"
       /\ ~Registered(q)


\* Positions of the control thread inside _start_new_bots.
InPass == {"rec_load", "rec_iter", "rec_end", "rec_ret"}

\* C22: in the loop, _start_new_bots is entered only by the step that ends
\* the settle delay, and the settle delay is entered only by the step that
\* has just read a modification time newer than the recorded one; while the
\* delay and the pass last, the change that was detected stays on record.
C22_SettleBeforeLoadInLoop ==
  [][/\ (inTry /\ pc \notin InPass /\ pc' \in InPass)
          => (pc = "settle" /\ pc' = "rec_load")
     /\ (pc # "settle" /\ pc' = "settle")
          => (inTry /\ pc = "poll_getmtime" /\ current_mod_time' = mtime
                /\ mtime > last_mod_time)
     /\ (inTry' /\ pc' \in {"settle"} \cup InPass)
          => current_mod_time' > last_mod_time']_vars

\* C22 witness: in the loop, after the settle delay, the pass is about to
\* load the store whose change was detected.
C22_Witness ==
  /\ inTry
  /\ pc = "rec_load"
  /\ current_mod_time > last_mod_time
  /\ current_mod_time = mtime

\* C23: every entry a get_ai_response call has saved is in the history of its
\* bot in chat.json.
C23_SavedEntriesKept ==
  \A e \in chat.saved :
    /\ Len(chat.file) > e.bot
    /\ \E k \in DOMAIN chat.file[e.bot + 1] : chat.file[e.bot + 1][k] = e

\* C24: the step in which the monitor thread of process p deletes from the
\* registry leaves the entry of every other process in place.
C24_MonitorRemovesOwnEntryOnly ==
  [][\A p \in DOMAIN procs :
       (procs[p].mon = "waiting" /\ procs'[p].mon = "done") =>
         \A k \in DOMAIN running_bots :
           running_bots[k].process # p =>
             \E m \in DOMAIN running_bots' : running_bots'[m] = running_bots[k]]_vars

\* The store holds a non-empty list that differs from the applied one while
\* the loop sleeps with the monitoring flag set.
ModificationPending ==
  /\ pc = "sleep"
  /\ monitoring
  /\ store.kind = "list"
  /\ store.list # <<>>
  /\ store.list # data

\* C25: a pending modification is eventually followed by a pass, unless the
\* store is removed, monitoring ends or the loop is left.
C25_NoModificationMissed ==
  ModificationPending ~>
    (pc = "rec_load" \/ ~Exists(store) \/ ~monitoring \/ pc \notin Running)

\* C26: the step of a pass that loads nothing (store missing, unparsable, not
\* a list, or an empty list) only returns: no exception leaves it, and the
\* registry, the processes and self.data are as before; so are they when the
\* pass returns to its caller, and the pass has attempted nothing.
C26_EmptyLoadChangesNothing ==
  [][/\ (pc = "rec_load" /\ pc' # "rec_load" /\ exitCause' = exitCause
           /\ (store.kind # "list" \/ store.list = <<>>))
          => /\ pc' = "rec_ret"
             /\ new_data' = <<>>
             /\ running_bots' = running_bots
             /\ procs' = procs
             /\ data' = data
             /\ lock' = lock
             /\ passLog' = <<>>
     /\ (pc = "rec_ret" /\ new_data = <<>> /\ pc' \in Running \ {"rec_ret"})
          => /\ running_bots' = running_bots
             /\ procs' = procs
             /\ data' = data
             /\ passLog = <<>>
             /\ data = passOld]_vars

\* C26 witness: a pass over an unparsable store has returned at line 107 while
\* a worker is registered and running and a non-empty list is applied.
C26_Witness ==
  /\ pc = "rec_ret"
  /\ new_data = <<>>
  /\ store.kind = "invalid"
  /\ data # <<>>
  /\ \E k \in DOMAIN running_bots : procs[running_bots[k].process].status = "running"


====
